---- MODULE Spec2Model ----
(***************************************************************************)
(* Model of the chart controller (ChartWidget, src/unnamed/part_001): the  *)
(* invalidation handler, the animation-frame paint callback, _drawImpl,    *)
(* resize, destroy and the structural resync / layout; of the lazily       *)
(* resolved views SeriesPaneViewBase and PriceAxisView                     *)
(* (views/pane/series-pane-view-base.ts); and of drawLine                  *)
(* (src/unnamed/part_000).                                                 *)
(*                                                                         *)
(* Every public method or callback is one atomic action (the program is    *)
(* single threaded).  Collaborators whose code is not part of the sources  *)
(* (InvalidateMask, ChartModel, PaneWidget, the browser's animation-frame  *)
(* queue) are modelled from the written specification.                     *)
(***************************************************************************)
EXTENDS Integers, Sequences, FiniteSets, TLC

(***************************************************************************)
(* Bounds of the model.                                                    *)
(***************************************************************************)
\* invalidations delivered between two consumptions of the pending mask
MaxBatch == 2
\* the pane indices an invalidation mask may name
PaneIdx == 0 .. 1

(***************************************************************************)
(* InvalidationLevel {None < Light < Full} and InvalidateMask.             *)
(***************************************************************************)
LevelNone == 0
LevelLight == 1
LevelFull == 2

Max(a, b) == IF a >= b THEN a ELSE b

Min(a, b) == IF a <= b THEN a ELSE b

\* a pane index without a pane-specific invalidation
NoEntry == [set |-> FALSE, level |-> LevelNone, autoScale |-> FALSE]

PaneEntry(level, autoScale) == [set |-> TRUE, level |-> level, autoScale |-> autoScale]

\* new InvalidateMask(level)
NewMask(level) == [level |-> level, fit |-> FALSE, panes |-> [i \in PaneIdx |-> NoEntry]]

\* mask.invalidatePane(i, {level, autoScale})
MergePane(a, b) ==
    IF ~a.set THEN b
    ELSE IF ~b.set THEN a
    ELSE PaneEntry(Max(a.level, b.level), a.autoScale \/ b.autoScale)

\* mask.merge(other): maximum severity, per-pane union, fit-content OR
Merge(m, o) ==
    [level |-> Max(m.level, o.level),
     fit   |-> m.fit \/ o.fit,
     panes |-> [i \in PaneIdx |-> MergePane(m.panes[i], o.panes[i])]]

\* mask.invalidateForPane(i): unset panes default to the global severity
InvalidateForPane(m, i) ==
    IF i \in PaneIdx /\ m.panes[i].set
    THEN [level |-> Max(m.level, m.panes[i].level), autoScale |-> m.panes[i].autoScale]
    ELSE [level |-> m.level, autoScale |-> FALSE]

\* mask.fullInvalidation()
FullInvalidation(m) == m.level

\* mask.getFitContent()
GetFitContent(m) == m.fit

LightMask == NewMask(LevelLight)

FullMask == NewMask(LevelFull)

\* Light with an autoscale request for pane 1
LightAuto1 == [LightMask EXCEPT !.panes[1] = PaneEntry(LevelLight, TRUE)]

\* Full with a fit-content request
FullFit == [FullMask EXCEPT !.fit = TRUE]

\* the masks the chart model raises on its own (price-scale and time-scale requests)
InputMasks == {LightAuto1, FullFit}

\* Light with a fit-content request and an autoscale request for pane 1
LightFit == [LightAuto1 EXCEPT !.fit = TRUE]

\* no global severity, a Light invalidation of pane 0 only
PaneOnly0 == [NewMask(LevelNone) EXCEPT !.panes[0] = PaneEntry(LevelLight, FALSE)]

\* the masks of the runs that look at what a paint does with the flags of its mask
PaintMasks == {LightFit, PaneOnly0}

\* the masks the chart model may raise while the controller calls into it
ReentMasks == {LightMask}

\* a covers b: painting with a does everything b asks for
Covers(a, b) == Merge(a, b) = a

(***************************************************************************)
(* Sizes.                                                                  *)
(***************************************************************************)
\* the <<height, width>> pairs resize is called with
Sizes == {<<50, 70>>, <<30, 70>>, <<30, 90>>}

\* the <<height, width>> pairs of the runs that look at the layout: a chart with
\* room for its panes, one with little room, one lower than its time axis
LayoutSizes == {<<50, 70>>, <<26, 70>>, <<10, 70>>}

\* SEPARATOR_HEIGHT (pane-separator)
SeparatorHeight == 1

\* TimeAxisWidget.optimalHeight()
TimeAxisHeight == 20

\* PriceAxisWidget.optimalWidth()
OptimalWidth == 40

\* PaneWidget.stretchFactor(): the stretch factor of the pane it shows
StretchFactor(id) == IF id % 2 = 1 THEN 1 ELSE 2

\* Math.round of the non-negative rational n / d
RoundDiv(n, d) == (2 * n + d) \div (2 * d)

VARIABLES
    height,          \* _height
    width,           \* _width
    paneWidgets,     \* _paneWidgets: sequence of [state, w, h]
    paneSeparators,  \* _paneSeparators: sequence of <<top index, bottom index>>
    priceAxisWidth,  \* _priceAxisWidth
    invalidateMask,  \* _invalidateMask: <<>> is null, <<m>> a mask
    drawPlanned,     \* _drawPlanned
    drawRafId,       \* _drawRafId
    rafQueue,        \* handles of the animation-frame callbacks outstanding
    destroyed,       \* "no", or the scheduler state destroy() found: "idle", "scheduled"
    modelPanes,      \* ChartModel.panes(): sequence of [id, autoScaled]
    timeRange,       \* visible range of the time scale: "fit" or "scrolled"
    batch,           \* history: masks delivered since the pending mask was consumed
    owed,            \* history: merge of delivered masks no later paint covered yet
    lastOp,          \* history: the operation of the last step and its arguments
    painted,         \* history: the _drawImpl runs of the last step
    env,             \* what the host and the model do in this run: never changes
    paneView,        \* a SeriesPaneViewBase, the scales and series it reads, its history
    axisView,        \* a PriceAxisView and its history
    canvas,          \* the drawing backend: the last drawLine call and what it issued
    wheel            \* a wheel event, the wheel options and what the handler did with it

vars == <<height, width, paneWidgets, paneSeparators, priceAxisWidth, invalidateMask,
          drawPlanned, drawRafId, rafQueue, destroyed, modelPanes, timeRange,
          batch, owed, lastOp, painted, env, paneView, axisView, canvas, wheel>>

\* the state of the chart controller and of what it works with
chartVars == <<height, width, paneWidgets, paneSeparators, priceAxisWidth, invalidateMask,
               drawPlanned, drawRafId, rafQueue, destroyed, modelPanes, timeRange,
               batch, owed, lastOp, painted, env>>

\* the part of the state _drawImpl works on
World == [paneWidgets |-> paneWidgets, paneSeparators |-> paneSeparators,
          priceAxisWidth |-> priceAxisWidth, modelPanes |-> modelPanes,
          timeRange |-> timeRange]

\* the scheduler fields of the controller
Ctl == [mask |-> invalidateMask, drawPlanned |-> drawPlanned,
        drawRafId |-> drawRafId, rafQueue |-> rafQueue]

(***************************************************************************)
(* The scheduler.                                                          *)
(***************************************************************************)
\* window.requestAnimationFrame: a non-zero handle no outstanding callback has
RequestAnimationFrame(q) ==
    CHOOSE i \in 1 .. (Cardinality(q) + 1) :
        i \notin q /\ \A j \in 1 .. (i - 1) : j \in q

\* window.cancelAnimationFrame
CancelAnimationFrame(q, id) == q \ {id}

\* the mask is replaced, not merged
InvalidateHandler_Overwrite(c, m) ==
    IF ~c.drawPlanned
    THEN [mask |-> <<m>>, drawPlanned |-> TRUE,
          drawRafId |-> RequestAnimationFrame(c.rafQueue),
          rafQueue |-> c.rafQueue \cup {RequestAnimationFrame(c.rafQueue)}]
    ELSE [c EXCEPT !.mask = <<m>>]

\* a mask that arrives while one is pending is ignored
InvalidateHandler_KeepFirst(c, m) ==
    IF ~c.drawPlanned
    THEN [mask |-> IF c.mask /= <<>> THEN c.mask ELSE <<m>>, drawPlanned |-> TRUE,
          drawRafId |-> RequestAnimationFrame(c.rafQueue),
          rafQueue |-> c.rafQueue \cup {RequestAnimationFrame(c.rafQueue)}]
    ELSE [c EXCEPT !.mask = IF c.mask /= <<>> THEN c.mask ELSE <<m>>]

\* a frame is requested on every invalidation
InvalidateHandler_Always(c, m) ==
    [mask |-> IF c.mask /= <<>> THEN <<Merge(c.mask[1], m)>> ELSE <<m>>,
     drawPlanned |-> TRUE,
     drawRafId |-> RequestAnimationFrame(c.rafQueue),
     rafQueue |-> c.rafQueue \cup {RequestAnimationFrame(c.rafQueue)}]

\* ChartWidget._invalidateHandler, up to the request of the frame
InvalidateHandler(c, m) ==
    LET merged == IF c.mask /= <<>> THEN <<Merge(c.mask[1], m)>> ELSE <<m>>
    IN  IF ~c.drawPlanned
        THEN [mask |-> merged, drawPlanned |-> TRUE,
              drawRafId |-> RequestAnimationFrame(c.rafQueue),
              rafQueue |-> c.rafQueue \cup {RequestAnimationFrame(c.rafQueue)}]
        ELSE [c EXCEPT !.mask = merged]

(***************************************************************************)
(* Structural resync and layout.                                           *)
(***************************************************************************)
RECURSIVE TotalStretch(_, _)
\* the sum of the stretch factors of the first k pane widgets
TotalStretch(ws, k) ==
    IF k = 0 THEN 0 ELSE TotalStretch(ws, k - 1) + StretchFactor(ws[k].state)

\* totalPaneHeight: the chart height less the separators and the time axis
TotalPaneHeight(hgt, nSeps) ==
    LET otherWidgetHeight == SeparatorHeight * nSeps + TimeAxisHeight
    IN  IF hgt < otherWidgetHeight THEN 0 ELSE hgt - otherWidgetHeight

RECURSIVE AccumulatedHeight(_, _, _)
\* accumulatedHeight after the first k pane widgets were sized
AccumulatedHeight(ws, k, total) ==
    IF k = 0 THEN 0
    ELSE LET acc  == AccumulatedHeight(ws, k - 1, total)
             calc == IF k = Len(ws)
                     THEN total - acc
                     ELSE RoundDiv(StretchFactor(ws[k].state) * total,
                                   TotalStretch(ws, Len(ws)))
         IN  acc + Max(calc, 2)

\* paneHeight of pane widget k (1-based)
PaneHeight(ws, k, total) ==
    AccumulatedHeight(ws, k, total) - AccumulatedHeight(ws, k - 1, total)

\* the last pane takes what is left, however little
AdjustSizeImpl_LastTakesRest(w, hgt, wdt) ==
    LET ws    == w.paneWidgets
        axisW == IF Len(ws) = 0 THEN 0 ELSE OptimalWidth
        paneW == Max(wdt - axisW, 0)
        total == TotalPaneHeight(hgt, Len(w.paneSeparators))
    IN  [w EXCEPT
           !.paneWidgets = [k \in 1 .. Len(ws) |->
               [state |-> IF k <= Len(w.modelPanes) THEN w.modelPanes[k].id ELSE 0,
                w     |-> paneW,
                h     |-> IF k = Len(ws)
                          THEN total - AccumulatedHeight(ws, k - 1, total)
                          ELSE PaneHeight(ws, k, total)]],
           !.priceAxisWidth = axisW]

\* ChartWidget._adjustSizeImpl
AdjustSizeImpl(w, hgt, wdt) ==
    LET ws    == w.paneWidgets
        axisW == IF Len(ws) = 0 THEN 0 ELSE OptimalWidth
        paneW == Max(wdt - axisW, 0)
        total == TotalPaneHeight(hgt, Len(w.paneSeparators))
    IN  [w EXCEPT
           !.paneWidgets = [k \in 1 .. Len(ws) |->
               [state |-> IF k <= Len(w.modelPanes) THEN w.modelPanes[k].id ELSE 0,
                w     |-> paneW,
                h     |-> PaneHeight(ws, k, total)]],
           !.priceAxisWidth = axisW]

\* the widgets are not bound to the model's panes again
SyncGuiWithModel_NoRebind(w, hgt, wdt) ==
    LET target == Len(w.modelPanes)
        actual == Len(w.paneWidgets)
        kept   == SubSeq(w.paneWidgets, 1, Min(actual, target))
        made   == [k \in 1 .. (target - Len(kept)) |->
                     [state |-> w.modelPanes[Len(kept) + k].id, w |-> 0, h |-> 0]]
    IN  [w EXCEPT !.paneWidgets = kept \o made]

\* ChartWidget._syncGuiWithModel
SyncGuiWithModel(w, hgt, wdt) ==
    LET target == Len(w.modelPanes)
        actual == Len(w.paneWidgets)
        \* remove pane widgets and separators
        kept     == SubSeq(w.paneWidgets, 1, Min(actual, target))
        keptSeps == SubSeq(w.paneSeparators, 1,
                           Max(0, Len(w.paneSeparators) - Max(0, actual - target)))
        \* create pane widgets, and a separator above every pane of index > 1
        made     == [k \in 1 .. (target - Len(kept)) |->
                       [state |-> w.modelPanes[Len(kept) + k].id, w |-> 0, h |-> 0]]
        newIdx   == {i \in actual .. (target - 1) : i > 1}
        madeSeps == [k \in 1 .. Cardinality(newIdx) |->
                       <<Max(actual, 2) + k - 2, Max(actual, 2) + k - 1>>]
        \* bind every widget to the pane of its index
        bound    == [k \in 1 .. target |->
                       [(kept \o made)[k] EXCEPT !.state = w.modelPanes[k].id]]
    IN  AdjustSizeImpl([w EXCEPT !.paneWidgets = bound,
                                 !.paneSeparators = keptSeps \o madeSeps],
                       hgt, wdt)

(***************************************************************************)
(* _drawImpl.  The chart model may call the invalidate handler while the   *)
(* controller calls into it: `at` names the call during which it does      *)
(* ("none", "gui": inside _updateGui, "fit": inside fitContent), `before`  *)
(* is the mask object as it reads before that call and `after` as it reads *)
(* after it (the two differ when the handler merged into this very object).*)
(***************************************************************************)
ReentPoints == {"gui", "fit"}

\* the mask as the fit-content test reads it
MaskAtFit(before, after, at) == IF at = "gui" THEN after ELSE before

\* the mask as the autoscale loop and paint read it
MaskAtPaint(before, after, at) == IF at = "none" THEN before ELSE after

\* whether _drawImpl makes the call during which the model raises
ReentPossible(before, at) ==
    \/ at = "none"
    \/ at = "gui" /\ FullInvalidation(before) = LevelFull
    \/ at = "fit" /\ FullInvalidation(before) \in {LevelFull, LevelLight}
                  /\ GetFitContent(before)

\* panes[i].momentaryAutoScale() for every pane the mask asks it for
AutoScalePanes(panes, m) ==
    [k \in 1 .. Len(panes) |->
        IF InvalidateForPane(m, k - 1).autoScale
        THEN [panes[k] EXCEPT !.autoScaled = TRUE]
        ELSE panes[k]]

\* the Light branch applies no fit-content request
DrawWorld_LightNoFit(w, hgt, wdt, before, after, at) ==
    LET type == FullInvalidation(before)
        mFit == MaskAtFit(before, after, at)
        mLate == MaskAtPaint(before, after, at)
    IN  IF type = LevelFull
        THEN LET w1 == SyncGuiWithModel(w, hgt, wdt)
                 w2 == IF GetFitContent(mFit) THEN [w1 EXCEPT !.timeRange = "fit"] ELSE w1
             IN  [w2 EXCEPT !.modelPanes = AutoScalePanes(w2.modelPanes, mLate)]
        ELSE w

\* the Full branch does not call _updateGui
DrawWorld_NoSync(w, hgt, wdt, before, after, at) ==
    LET type == FullInvalidation(before)
        mFit == MaskAtFit(before, after, at)
        mLate == MaskAtPaint(before, after, at)
    IN  IF type = LevelFull
        THEN LET w2 == IF GetFitContent(mFit) THEN [w EXCEPT !.timeRange = "fit"] ELSE w
                 w3 == [w2 EXCEPT !.modelPanes = AutoScalePanes(w2.modelPanes, mLate)]
             IN  [w3 EXCEPT !.paneWidgets =
                     [k \in 1 .. Len(w3.paneWidgets) |->
                        [w3.paneWidgets[k] EXCEPT !.state =
                            IF k <= Len(w3.modelPanes) THEN w3.modelPanes[k].id ELSE 0]]]
        ELSE IF type = LevelLight
        THEN IF GetFitContent(before) THEN [w EXCEPT !.timeRange = "fit"] ELSE w
        ELSE w

\* the state _drawImpl leaves
DrawWorld(w, hgt, wdt, before, after, at) ==
    LET type == FullInvalidation(before)
        mFit == MaskAtFit(before, after, at)
        mLate == MaskAtPaint(before, after, at)
    IN  IF type = LevelFull
        THEN LET w1 == SyncGuiWithModel(w, hgt, wdt)
                 w2 == IF GetFitContent(mFit) THEN [w1 EXCEPT !.timeRange = "fit"] ELSE w1
                 w3 == [w2 EXCEPT !.modelPanes = AutoScalePanes(w2.modelPanes, mLate)]
             IN  [w3 EXCEPT !.paneWidgets =
                     [k \in 1 .. Len(w3.paneWidgets) |->
                        [w3.paneWidgets[k] EXCEPT !.state =
                            IF k <= Len(w3.modelPanes) THEN w3.modelPanes[k].id ELSE 0]]]
        ELSE IF type = LevelLight
        THEN IF GetFitContent(before) THEN [w EXCEPT !.timeRange = "fit"] ELSE w
        ELSE w

\* the Full branch autoscales every pane of the model, flagged or not
DrawOps_AutoScaleAll(w, before, after, at) ==
    LET type == FullInvalidation(before)
        mFit == MaskAtFit(before, after, at)
        n == Len(w.modelPanes)
    IN  IF type = LevelFull
        THEN <<<<"updateGui", 0>>>>
             \o (IF GetFitContent(mFit) THEN <<<<"fitContent", 0>>>> ELSE <<>>)
             \o [k \in 1 .. n |-> <<"autoScale", k - 1>>]
             \o <<<<"timeAxisUpdate", 0>>, <<"paint", 0>>>>
        ELSE IF type = LevelLight
        THEN (IF GetFitContent(before) THEN <<<<"fitContent", 0>>>> ELSE <<>>)
             \o <<<<"timeAxisUpdate", 0>>, <<"paint", 0>>>>
        ELSE <<<<"paint", 0>>>>

\* the calls _drawImpl makes, in order: <<name, pane index>>
DrawOps(w, before, after, at) ==
    LET type == FullInvalidation(before)
        mFit == MaskAtFit(before, after, at)
        mLate == MaskAtPaint(before, after, at)
        n == Len(w.modelPanes)
        autos == {i \in 0 .. (n - 1) : InvalidateForPane(mLate, i).autoScale}
        RECURSIVE AutoOps(_)
        AutoOps(i) == IF i >= n THEN <<>>
                      ELSE (IF i \in autos THEN <<<<"autoScale", i>>>> ELSE <<>>) \o AutoOps(i + 1)
    IN  IF type = LevelFull
        THEN <<<<"updateGui", 0>>>>
             \o (IF GetFitContent(mFit) THEN <<<<"fitContent", 0>>>> ELSE <<>>)
             \o AutoOps(0)
             \o <<<<"timeAxisUpdate", 0>>, <<"paint", 0>>>>
        ELSE IF type = LevelLight
        THEN (IF GetFitContent(before) THEN <<<<"fitContent", 0>>>> ELSE <<>>)
             \o <<<<"timeAxisUpdate", 0>>, <<"paint", 0>>>>
        ELSE <<<<"paint", 0>>>>

\* every pane widget is painted at the level of pane 0
Paint_FirstPaneLevel(ws, m) ==
    [panes |-> [k \in 1 .. Len(ws) |-> InvalidateForPane(m, 0).level],
     axis  |-> FullInvalidation(m)]

\* ChartWidget.paint(mask): the level every pane widget and the time axis is painted at
Paint(ws, m) ==
    [panes |-> [k \in 1 .. Len(ws) |-> InvalidateForPane(m, k - 1).level],
     axis  |-> FullInvalidation(m)]

\* what one run of _drawImpl did
DrawRecord(src, consumed, w, hgt, wdt, before, after, at) ==
    [src    |-> src,
     batch  |-> consumed,
     mask   |-> before,
     level  |-> FullInvalidation(before),
     at     |-> at,
     ops    |-> DrawOps(w, before, after, at),
     levels |-> Paint(DrawWorld(w, hgt, wdt, before, after, at).paneWidgets,
                      MaskAtPaint(before, after, at))]

(***************************************************************************)
(* The frame callback and destroy, on the scheduler fields.                *)
(***************************************************************************)
\* the callback leaves _drawPlanned set
FrameEnter_KeepPlanned(c, h) ==
    [c EXCEPT !.drawRafId = 0, !.rafQueue = c.rafQueue \ {h}]

\* the frame callback before the paint: _drawPlanned = false, _drawRafId = 0
FrameEnter(c, h) ==
    [c EXCEPT !.drawPlanned = FALSE, !.drawRafId = 0, !.rafQueue = c.rafQueue \ {h}]

\* the painted mask stays pending
FrameLeave_KeepMask(c) == c

\* the frame callback after the paint: _invalidateMask = null
FrameLeave(c) == [c EXCEPT !.mask = <<>>]

\* the outstanding frame is not cancelled
DestroyCtl_NoCancel(c) == c

\* destroy(): cancelAnimationFrame(_drawRafId) when a frame was requested
DestroyCtl(c) ==
    IF c.drawRafId /= 0
    THEN [c EXCEPT !.rafQueue = CancelAnimationFrame(c.rafQueue, c.drawRafId)]
    ELSE c

\* ChartModel.destroy(): the model releases its panes
ModelDestroy(w) == [w EXCEPT !.modelPanes = <<>>]

\* the pane widgets are destroyed and the list is kept
DestroyWorld_KeepWidgets(w) == ModelDestroy(w)

\* destroy(): the model, every pane widget and every separator are destroyed
DestroyWorld(w) ==
    [ModelDestroy(w) EXCEPT !.paneWidgets = <<>>, !.paneSeparators = <<>>]

(***************************************************************************)
(* History variables.                                                      *)
(***************************************************************************)
\* h, w and force are the arguments of resize, and 0, 0, FALSE for any other operation
Op(name, h, w, force) == [op |-> name, h |-> h, w |-> w, force |-> force]

\* the choices of the chart model during one _drawImpl: no call back, or one
Reents == {[at |-> "none", mask |-> <<>>]}
          \cup {[at |-> a, mask |-> <<r>>] : a \in ReentPoints, r \in ReentMasks}

MergeOpt(acc, ms) ==
    IF ms = <<>> THEN acc
    ELSE IF acc = <<>> THEN ms
    ELSE <<Merge(acc[1], ms[1])>>

\* a paint entered with `entry` settles what it covers; what the model raises
\* during it is owed afresh
OwedAfterDraw(o, entry, raised) ==
    MergeOpt(IF o /= <<>> /\ Covers(entry, o[1]) THEN <<>> ELSE o, raised)

SetCtl(c) ==
    /\ invalidateMask' = c.mask
    /\ drawPlanned' = c.drawPlanned
    /\ drawRafId' = c.drawRafId
    /\ rafQueue' = c.rafQueue

SetWorld(w) ==
    /\ paneWidgets' = w.paneWidgets
    /\ paneSeparators' = w.paneSeparators
    /\ priceAxisWidth' = w.priceAxisWidth
    /\ modelPanes' = w.modelPanes
    /\ timeRange' = w.timeRange

\* the chart model calls the invalidate handler with m
Raise(m) ==
    /\ Len(batch) < MaxBatch
    /\ SetCtl(InvalidateHandler(Ctl, m))
    /\ batch' = Append(batch, m)
    /\ owed' = MergeOpt(owed, <<m>>)
    /\ painted' = <<>>

(***************************************************************************)
(* The chart model (the controller's collaborator).                        *)
(***************************************************************************)
\* the pane objects the model creates
PaneIds == 1 .. 6

\* a pane object no list and no widget refers to
FreshPane ==
    CHOOSE id \in PaneIds :
        /\ \A k \in 1 .. Len(modelPanes) : modelPanes[k].id /= id
        /\ \A k \in 1 .. Len(paneWidgets) : paneWidgets[k].state /= id
        /\ \A j \in 1 .. (id - 1) :
              \/ \E k \in 1 .. Len(modelPanes) : modelPanes[k].id = j
              \/ \E k \in 1 .. Len(paneWidgets) : paneWidgets[k].state = j

RemoveAt(seq, i) == SubSeq(seq, 1, i - 1) \o SubSeq(seq, i + 1, Len(seq))

\* a price-scale or time-scale request of the model: it raises a mask
ModelInvalidate(m) ==
    /\ UNCHANGED <<env, paneView, axisView, canvas, wheel>>
    /\ m \in env.masks
    /\ Raise(m)
    /\ lastOp' = Op("invalidate", 0, 0, FALSE)
    /\ UNCHANGED <<height, width, paneWidgets, paneSeparators, priceAxisWidth,
                   destroyed, modelPanes, timeRange>>

\* the user scrolls the time scale: a Light update
ScrollChart ==
    /\ UNCHANGED <<env, paneView, axisView, canvas, wheel>>
    /\ destroyed = "no"
    /\ timeRange' = "scrolled"
    /\ Raise(LightMask)
    /\ lastOp' = Op("scroll", 0, 0, FALSE)
    /\ UNCHANGED <<height, width, paneWidgets, paneSeparators, priceAxisWidth,
                   destroyed, modelPanes>>

\* a pane is added to the model: a Full update
AddPane ==
    /\ UNCHANGED <<env, paneView, axisView, canvas, wheel>>
    /\ destroyed = "no"
    /\ Len(modelPanes) < env.paneLimit
    /\ modelPanes' = Append(modelPanes, [id |-> FreshPane, autoScaled |-> FALSE])
    /\ Raise(FullMask)
    /\ lastOp' = Op("addPane", 0, 0, FALSE)
    /\ UNCHANGED <<height, width, paneWidgets, paneSeparators, priceAxisWidth,
                   destroyed, timeRange>>

\* pane i is removed from the model: a Full update
RemovePane(i) ==
    /\ UNCHANGED <<env, paneView, axisView, canvas, wheel>>
    /\ destroyed = "no"
    /\ Len(modelPanes) > 1
    /\ i \in 1 .. Len(modelPanes)
    /\ modelPanes' = RemoveAt(modelPanes, i)
    /\ Raise(FullMask)
    /\ lastOp' = Op("removePane", 0, 0, FALSE)
    /\ UNCHANGED <<height, width, paneWidgets, paneSeparators, priceAxisWidth,
                   destroyed, timeRange>>

(***************************************************************************)
(* The controller.                                                         *)
(***************************************************************************)
\* resize() has no early return
ResizeIsNoop_Never(h, w) == FALSE

\* resize(): the early return
ResizeIsNoop(h, w) == height = h /\ width = w

\* the forced repaint goes through the scheduler
ResizeForced_Deferred(force) == FALSE

\* resize(): the forceRepaint branch
ResizeForced(force) == force

\* ChartWidget.resize(height, width, forceRepaint)
Resize(h, w, force) ==
    /\ UNCHANGED <<env, paneView, axisView, canvas, wheel>>
    /\ destroyed = "no"
    /\ <<h, w>> \in env.sizes
    /\ lastOp' = Op("resize", h, w, force)
    /\ IF ResizeIsNoop(h, w)
       THEN /\ painted' = <<>>
            /\ UNCHANGED <<height, width, paneWidgets, paneSeparators, priceAxisWidth,
                           invalidateMask, drawPlanned, drawRafId, rafQueue, destroyed,
                           modelPanes, timeRange, batch, owed>>
       ELSE /\ height' = h
            /\ width' = w
            /\ UNCHANGED destroyed
            /\ IF ResizeForced(force)
               THEN \E re \in Reents :
                       /\ ReentPossible(FullMask, re.at)
                       /\ re.at /= "none" => Len(batch) < MaxBatch
                       /\ SetWorld(DrawWorld(World, h, w, FullMask, FullMask, re.at))
                       /\ SetCtl(IF re.at = "none" THEN Ctl
                                 ELSE InvalidateHandler(Ctl, re.mask[1]))
                       /\ batch' = batch \o re.mask
                       /\ owed' = OwedAfterDraw(owed, FullMask, re.mask)
                       /\ painted' = <<DrawRecord("resize", <<>>, World, h, w,
                                                  FullMask, FullMask, re.at)>>
               ELSE /\ Raise(FullMask)
                    /\ UNCHANGED <<paneWidgets, paneSeparators, priceAxisWidth,
                                   modelPanes, timeRange>>

\* the callback given to requestAnimationFrame, run by the browser
AnimationFrame(h) ==
    /\ UNCHANGED <<env, paneView, axisView, canvas, wheel>>
    /\ h \in rafQueue
    /\ LET c1 == FrameEnter(Ctl, h)
       IN  IF c1.mask = <<>>
           THEN /\ SetCtl(c1)
                /\ painted' = <<>>
                /\ lastOp' = Op("frame", 0, 0, FALSE)
                /\ UNCHANGED <<paneWidgets, paneSeparators, priceAxisWidth,
                               modelPanes, timeRange, batch, owed>>
           ELSE \E re \in Reents :
                   LET before == c1.mask[1]
                       c2     == IF re.at = "none" THEN c1
                                 ELSE InvalidateHandler(c1, re.mask[1])
                       after  == c2.mask[1]
                   IN  /\ ReentPossible(before, re.at)
                       /\ SetWorld(DrawWorld(World, height, width, before, after, re.at))
                       /\ SetCtl(FrameLeave(c2))
                       /\ batch' = <<>>
                       /\ owed' = OwedAfterDraw(owed, before, re.mask)
                       /\ painted' = <<DrawRecord("frame", batch, World, height, width,
                                                  before, after, re.at)>>
                       /\ lastOp' = Op("frame", 0, 0, FALSE)
    /\ UNCHANGED <<height, width, destroyed>>

\* ChartWidget.destroy()
Destroy ==
    /\ UNCHANGED <<env, paneView, axisView, canvas, wheel>>
    /\ destroyed = "no"
    /\ destroyed' = IF rafQueue /= {} THEN "scheduled" ELSE "idle"
    /\ SetCtl(DestroyCtl(Ctl))
    /\ SetWorld(DestroyWorld(World))
    /\ painted' = <<>>
    /\ lastOp' = Op("destroy", 0, 0, FALSE)
    /\ UNCHANGED <<height, width, batch, owed>>

\* the host calls paint() without a mask
PaintNoMask ==
    /\ UNCHANGED <<env, paneView, axisView, canvas, wheel>>
    /\ destroyed = "no"
    /\ painted' = <<[src    |-> "paint",
                     batch  |-> <<>>,
                     mask   |-> FullMask,
                     level  |-> LevelFull,
                     at     |-> "none",
                     ops    |-> <<<<"paint", 0>>>>,
                     levels |-> Paint(paneWidgets, FullMask)]>>
    /\ lastOp' = Op("paint", 0, 0, FALSE)
    /\ UNCHANGED <<height, width, paneWidgets, paneSeparators, priceAxisWidth,
                   invalidateMask, drawPlanned, drawRafId, rafQueue, destroyed,
                   modelPanes, timeRange, batch, owed>>

(***************************************************************************)
(* SeriesPaneViewBase (series-pane-view-base.ts).  paneView holds the      *)
(* fields of one view, what the view reads (the series' bars, the time     *)
(* scale and the price scale), and the history of the last call.           *)
(***************************************************************************)
\* series.data().bars().size()
BarCounts == 0 .. 2

\* UpdateType, and "none" for update() called without an argument
UpdateKinds == {"data", "options", "none"}

\* timeScale.visibleBars(): <<>> is null
VisibleBars == {<<>>, <<[from |-> 1, to |-> 1]>>, <<[from |-> 2, to |-> 3]>>}

\* what the view reads from the model: an empty time scale has no visible bars
SeriesStates ==
    {e \in [bars : BarCounts, timeEmpty : BOOLEAN, priceEmpty : BOOLEAN,
            visible : VisibleBars] : e.timeEmpty => e.visible = <<>>}

\* _fillRawPoints of the concrete view: one item per bar, no coordinate yet
FillRawPoints(v) ==
    [v EXCEPT !.items = [k \in 1 .. v.bars |-> [index |-> k, x |-> 0]],
              !.log = Append(v.log, "fillRawPoints")]

\* visibleTimedValues(items, visibleBars): the half-open range of item positions
VisibleTimedValues(items, vb) ==
    [from |-> Cardinality({k \in DOMAIN items : items[k].index < vb.from}),
     to   |-> Cardinality({k \in DOMAIN items : items[k].index <= vb.to})]

\* Series.firstValue(): the value of the first bar of the series at or after the
\* first visible bar, <<>> (null) when the series has no such bar
FirstValue(v) ==
    LET right == {k \in 1 .. v.bars : k >= v.visible[1].from}
    IN  IF right = {} THEN <<>>
        ELSE <<100 + CHOOSE k \in right : \A j \in right : k <= j>>

\* _convertToCoordinates of the concrete view: the items of the visible range get a coordinate
ConvertToCoordinates(v) ==
    LET r == v.range[1]
    IN  [v EXCEPT !.items = [k \in DOMAIN v.items |->
                                IF r.from < k /\ k <= r.to
                                THEN [v.items[k] EXCEPT !.x = 10 * v.items[k].index]
                                ELSE v.items[k]],
                  !.log = Append(v.log, "convertToCoordinates")]

\* update() raises the data flag whatever the update type is
PaneViewUpdate_DataAlways(v, kind) ==
    [v EXCEPT !.invalidated = TRUE, !.dataInvalidated = TRUE]

\* SeriesPaneViewBase.update(updateType)
PaneViewUpdate(v, kind) ==
    LET v1 == [v EXCEPT !.invalidated = TRUE]
    IN  IF kind = "data" THEN [v1 EXCEPT !.dataInvalidated = TRUE] ELSE v1

\* an empty scale or series leaves the visible range as it was
UpdatePoints_KeepRange(v) ==
    LET v0 == [v EXCEPT !.log = Append(v.log, "updatePoints")]
    IN  IF v0.timeEmpty \/ v0.priceEmpty \/ v0.visible = <<>> \/ v0.bars = 0
        THEN v0
        ELSE LET v1 == [v0 EXCEPT
                           !.range = <<VisibleTimedValues(v0.items, v0.visible[1])>>]
             IN  IF FirstValue(v1) = <<>>
                 THEN [v1 EXCEPT !.threw = TRUE]
                 ELSE ConvertToCoordinates(v1)

\* SeriesPaneViewBase._updatePoints; ensureNotNull throws on a null first value,
\* after the visible range was assigned
UpdatePoints(v) ==
    LET v0 == [v EXCEPT !.log = Append(v.log, "updatePoints")]
    IN  IF v0.timeEmpty \/ v0.priceEmpty
        THEN [v0 EXCEPT !.range = <<>>]
        ELSE IF v0.visible = <<>>
        THEN [v0 EXCEPT !.range = <<>>]
        ELSE IF v0.bars = 0
        THEN [v0 EXCEPT !.range = <<>>]
        ELSE LET v1 == [v0 EXCEPT
                           !.range = <<VisibleTimedValues(v0.items, v0.visible[1])>>]
             IN  IF FirstValue(v1) = <<>>
                 THEN [v1 EXCEPT !.threw = TRUE]
                 ELSE ConvertToCoordinates(v1)

\* _makeValid does not clear the data flag
MakeValid_KeepDataFlag(v) ==
    LET v1 == IF v.dataInvalidated THEN FillRawPoints(v) ELSE v
    IN  IF v1.invalidated
        THEN LET v2 == UpdatePoints(v1)
             IN  IF v2.threw THEN v2 ELSE [v2 EXCEPT !.invalidated = FALSE]
        ELSE v1

\* SeriesPaneViewBase._makeValid; an exception of _updatePoints leaves _invalidated set
MakeValid(v) ==
    LET v1 == IF v.dataInvalidated
              THEN [FillRawPoints(v) EXCEPT !.dataInvalidated = FALSE]
              ELSE v
    IN  IF v1.invalidated
        THEN LET v2 == UpdatePoints(v1)
             IN  IF v2.threw THEN v2 ELSE [v2 EXCEPT !.invalidated = FALSE]
        ELSE v1

\* the view after its construction, over a chart without data
NewPaneView ==
    [invalidated |-> TRUE, dataInvalidated |-> TRUE, items |-> <<>>, range |-> <<>>,
     bars |-> 0, timeEmpty |-> TRUE, priceEmpty |-> TRUE, visible |-> <<>>,
     op |-> "new", kind |-> "none", log |-> <<>>, threw |-> FALSE,
     sinceData |-> TRUE, sinceAny |-> TRUE]

\* update(kind) is called on the view
PaneViewUpdated(kind) ==
    /\ paneView' = [PaneViewUpdate(paneView, kind) EXCEPT
                       !.op = "update", !.kind = kind, !.log = <<>>, !.threw = FALSE,
                       !.sinceData = (paneView.sinceData \/ kind = "data"),
                       !.sinceAny = TRUE]
    /\ UNCHANGED <<chartVars, axisView, canvas, wheel>>

\* renderer(height, width) of the concrete view resolves the view
PaneViewResolved ==
    /\ paneView' = [MakeValid([paneView EXCEPT !.log = <<>>, !.threw = FALSE]) EXCEPT
                       !.op = "resolve", !.kind = "none",
                       !.sinceData = FALSE, !.sinceAny = FALSE]
    /\ UNCHANGED <<chartVars, axisView, canvas, wheel>>

\* the series or a scale changes; the view is not told
SeriesChanged(e) ==
    /\ e \in SeriesStates
    /\ paneView' = [paneView EXCEPT !.bars = e.bars, !.timeEmpty = e.timeEmpty,
                       !.priceEmpty = e.priceEmpty, !.visible = e.visible,
                       !.op = "series", !.kind = "none", !.log = <<>>, !.threw = FALSE]
    /\ UNCHANGED <<chartVars, axisView, canvas, wheel>>

(***************************************************************************)
(* PriceAxisView (series-pane-view-base.ts).  The renderer data are        *)
(* modelled by their stamp: the number of update() calls made when         *)
(* _updateRendererData computed them, NeverComputed for the defaults the   *)
(* field initialisers set.                                                 *)
(***************************************************************************)
\* update() calls looked at in one run
MaxUpdates == 3

\* the stamp of the data the field initialisers set
NeverComputed == -1

\* the accessors that call _updateRendererDataIfNeeded first
LazyAccessors == {"coordinate", "floatCoordinate", "isVisible", "isAxisLabelVisible",
                  "isPaneLabelVisible", "renderer", "paneRenderer"}

\* the accessors that return the stored data as they are
DirectAccessors == {"text", "background", "color"}

Accessors == LazyAccessors \cup DirectAccessors

\* _updateRendererDataIfNeeded leaves the flag set
UpdateRendererDataIfNeeded_KeepFlag(a) ==
    IF a.invalidated
    THEN [a EXCEPT !.stamp = a.updates, !.ran = TRUE, !.runs = Min(a.runs + 1, 2)]
    ELSE a

\* PriceAxisView._updateRendererDataIfNeeded
UpdateRendererDataIfNeeded(a) ==
    IF a.invalidated
    THEN [a EXCEPT !.stamp = a.updates, !.invalidated = FALSE,
                   !.ran = TRUE, !.runs = Min(a.runs + 1, 2)]
    ELSE a

\* PriceAxisView.update
AxisViewUpdate(a) == [a EXCEPT !.invalidated = TRUE]

\* text(), background(), color(), coordinate(), floatCoordinate(), isVisible(),
\* isAxisLabelVisible(), isPaneLabelVisible(), renderer(), paneRenderer()
AccessorRead(a, name) ==
    LET a1 == IF name \in LazyAccessors THEN UpdateRendererDataIfNeeded(a) ELSE a
    IN  [a1 EXCEPT !.ret = a1.stamp]

\* the view after its construction
NewAxisView ==
    [invalidated |-> TRUE, stamp |-> NeverComputed, updates |-> 0,
     op |-> "new", ret |-> NeverComputed, ran |-> FALSE, runs |-> 0]

\* update() is called on the view
AxisViewUpdated ==
    /\ axisView.updates < MaxUpdates
    /\ axisView' = [AxisViewUpdate([axisView EXCEPT !.updates = axisView.updates + 1,
                                                    !.ran = FALSE, !.runs = 0])
                      EXCEPT !.op = "update", !.ret = NeverComputed]
    /\ UNCHANGED <<chartVars, paneView, canvas, wheel>>

\* an accessor of the view is called
AxisViewRead(name) ==
    /\ name \in Accessors
    /\ axisView' = [AccessorRead([axisView EXCEPT !.ran = FALSE], name) EXCEPT !.op = name]
    /\ UNCHANGED <<chartVars, paneView, canvas, wheel>>

(***************************************************************************)
(* drawLine and setLineStyle (src/unnamed/part_000).  A number is          *)
(* [k, v]: k is "fin" for the finite number v, "nan", "+inf" or "-inf".    *)
(***************************************************************************)
Num(v) == [k |-> "fin", v |-> v]

NaN == [k |-> "nan", v |-> 0]

PosInf == [k |-> "+inf", v |-> 0]

NegInf == [k |-> "-inf", v |-> 0]

\* the coordinates drawLine is called with
Coords == {Num(0), Num(7), NaN, PosInf, NegInf}

\* enum LineStyle
LineStyles == 0 .. 4

\* ctx.lineWidth (LineWidth)
LineWidths == {1, 2}

\* isFinite(x)
IsFinite(x) == x.k = "fin"

\* one operation issued on the drawing backend
CtxOp(name, args) == [op |-> name, args |-> args]

\* dashPatterns[style] for the line width w
DashPattern(w, style) ==
    CASE style = 0 -> <<>>
      [] style = 1 -> <<w, 2 * w>>
      [] style = 2 -> <<5 * w, 6 * w>>
      [] style = 3 -> <<6 * w, 6 * w>>
      [] style = 4 -> <<w, 4 * w>>

\* setLineStyle(ctx, style)
SetLineStyle(ops, w, style) == Append(ops, CtxOp("setLineDash", <<DashPattern(w, style)>>))

\* drawLine tests the first end point only
DrawLine_FirstPointOnly(w, x1, y1, x2, y2, style) ==
    IF ~IsFinite(x1) \/ ~IsFinite(y1)
    THEN <<>>
    ELSE SetLineStyle(<<CtxOp("save", <<>>)>>, w, style)
         \o <<CtxOp("beginPath", <<>>), CtxOp("moveTo", <<x1, y1>>),
              CtxOp("lineTo", <<x2, y2>>), CtxOp("stroke", <<>>), CtxOp("restore", <<>>)>>

\* drawLine(ctx, x1, y1, x2, y2, lineStyle): the operations it issues on ctx
DrawLine(w, x1, y1, x2, y2, style) ==
    IF ~IsFinite(x1) \/ ~IsFinite(x2) \/ ~IsFinite(y1) \/ ~IsFinite(y2)
    THEN <<>>
    ELSE SetLineStyle(<<CtxOp("save", <<>>)>>, w, style)
         \o <<CtxOp("beginPath", <<>>), CtxOp("moveTo", <<x1, y1>>),
              CtxOp("lineTo", <<x2, y2>>), CtxOp("stroke", <<>>), CtxOp("restore", <<>>)>>

\* no drawLine call was made yet
NewCanvas ==
    [called |-> FALSE, lineWidth |-> 1, x1 |-> Num(0), y1 |-> Num(0), x2 |-> Num(0),
     y2 |-> Num(0), style |-> 0, ops |-> <<>>]

\* the calls of drawLine looked at: a context and the arguments, nothing issued yet
LineCalls ==
    {[called |-> FALSE, lineWidth |-> w, x1 |-> x1, y1 |-> y1, x2 |-> x2, y2 |-> y2,
      style |-> style, ops |-> <<>>] :
        w \in LineWidths, x1 \in Coords, y1 \in Coords, x2 \in Coords, y2 \in Coords,
        style \in LineStyles}

\* a renderer calls drawLine on the context, with the arguments of the run
LineDrawn ==
    /\ ~canvas.called
    /\ canvas' = [canvas EXCEPT
                     !.called = TRUE,
                     !.ops = DrawLine(canvas.lineWidth, canvas.x1, canvas.y1,
                                      canvas.x2, canvas.y2, canvas.style)]
    /\ UNCHANGED <<chartVars, paneView, axisView, wheel>>

(***************************************************************************)
(* ChartWidget._onMousewheel (part_001).  Deltas are kept in hundredths:   *)
(* the handler divides the event's deltas by 100, so a delta d of the      *)
(* event is the number d of hundredths after the division.  The calls the  *)
(* handler makes on the event and on the model are recorded in order; the  *)
(* scroll position passed to zoomTime is left out.                         *)
(***************************************************************************)
\* the number that stands for 1 after the division by 100
WheelUnit == 100

\* WheelEvent.deltaX, WheelEvent.deltaY: none, less than 100, exactly 100, more
WheelDeltas == {-250, -100, -30, 0, 30, 100, 250}

\* WheelEvent.deltaMode
DeltaModes == {"DOM_DELTA_PIXEL", "DOM_DELTA_LINE", "DOM_DELTA_PAGE"}

\* Math.sign
Sign(x) == IF x > 0 THEN 1 ELSE IF x < 0 THEN -1 ELSE 0

\* Math.abs
Abs(x) == IF x < 0 THEN -x ELSE x

\* a call the handler makes, with its numeric argument in hundredths
WheelCall(name, arg) == [op |-> name, arg |-> arg]

\* the zoom amount is the delta itself, not clamped to 1
OnMousewheel_NoClamp(dX, dY, mode, scroll, scale) ==
    LET deltaX0 == dX
        deltaY0 == -dY
    IN  IF (deltaX0 = 0 \/ ~scroll) /\ (deltaY0 = 0 \/ ~scale)
        THEN <<>>
        ELSE LET mul == CASE mode = "DOM_DELTA_PAGE" -> 120
                          [] mode = "DOM_DELTA_LINE" -> 32
                          [] OTHER -> 1
                 deltaX == deltaX0 * mul
                 deltaY == deltaY0 * mul
                 zoom == IF deltaY /= 0 /\ scale
                         THEN <<WheelCall("zoomTime", deltaY)>>
                         ELSE <<>>
                 scr == IF deltaX /= 0 /\ scroll
                        THEN <<WheelCall("scrollChart", deltaX * (-80))>>
                        ELSE <<>>
             IN  <<WheelCall("preventDefault", 0)>> \o zoom \o scr

\* ChartWidget._onMousewheel(event) under the options handleScroll.mouseWheel
\* and handleScale.mouseWheel: the calls it makes, in order
OnMousewheel(dX, dY, mode, scroll, scale) ==
    LET deltaX0 == dX
        deltaY0 == -dY
    IN  IF (deltaX0 = 0 \/ ~scroll) /\ (deltaY0 = 0 \/ ~scale)
        THEN <<>>
        ELSE LET mul == CASE mode = "DOM_DELTA_PAGE" -> 120
                          [] mode = "DOM_DELTA_LINE" -> 32
                          [] OTHER -> 1
                 deltaX == deltaX0 * mul
                 deltaY == deltaY0 * mul
                 zoom == IF deltaY /= 0 /\ scale
                         THEN <<WheelCall("zoomTime",
                                          Sign(deltaY) * Min(WheelUnit, Abs(deltaY)))>>
                         ELSE <<>>
                 scr == IF deltaX /= 0 /\ scroll
                        THEN <<WheelCall("scrollChart", deltaX * (-80))>>
                        ELSE <<>>
             IN  <<WheelCall("preventDefault", 0)>> \o zoom \o scr

\* no wheel event was delivered
NewWheel ==
    [handled |-> FALSE, deltaX |-> 0, deltaY |-> 0, deltaMode |-> "DOM_DELTA_PIXEL",
     scroll |-> TRUE, scale |-> TRUE, calls |-> <<>>]

\* the wheel events looked at and the options they meet, nothing handled yet
WheelEvents ==
    {[handled |-> FALSE, deltaX |-> dX, deltaY |-> dY, deltaMode |-> mode,
      scroll |-> scroll, scale |-> scale, calls |-> <<>>] :
        dX \in WheelDeltas, dY \in WheelDeltas, mode \in DeltaModes,
        scroll \in BOOLEAN, scale \in BOOLEAN}

\* the element delivers the wheel event of the run to the handler
Mousewheel ==
    /\ ~wheel.handled
    /\ wheel' = [wheel EXCEPT
                    !.handled = TRUE,
                    !.calls = OnMousewheel(wheel.deltaX, wheel.deltaY, wheel.deltaMode,
                                           wheel.scroll, wheel.scale)]
    /\ UNCHANGED <<chartVars, paneView, axisView, canvas>>

(***************************************************************************)
(* The state after the constructor: resize(height, width) raised a Full    *)
(* update, then _syncGuiWithModel built the widgets of the model's pane.   *)
(***************************************************************************)
InitCtl ==
    InvalidateHandler([mask |-> <<>>, drawPlanned |-> FALSE, drawRafId |-> 0,
                       rafQueue |-> {}], FullMask)

InitWorld ==
    SyncGuiWithModel([paneWidgets |-> <<>>, paneSeparators |-> <<>>,
                      priceAxisWidth |-> 0,
                      modelPanes |-> <<[id |-> 1, autoScaled |-> FALSE]>>,
                      timeRange |-> "fit"], 50, 70)

\* a chart of up to two panes, resized by the host, with every request of the model
HostProfile == [paneLimit |-> 2, masks |-> InputMasks, sizes |-> Sizes]

\* a chart of up to three panes (two panes have no separator, three have one)
PanesProfile == [paneLimit |-> 3, masks |-> {FullFit}, sizes |-> {<<50, 70>>}]

\* a chart of up to two panes with every request of the model, resized in height only
MasksProfile == [paneLimit |-> 2, masks |-> InputMasks, sizes |-> {<<50, 70>>, <<30, 70>>}]

\* a chart of up to three panes that the host makes small
LayoutProfile == [paneLimit |-> 3, masks |-> {FullFit}, sizes |-> LayoutSizes]

\* a chart of up to two panes whose model raises Light and pane-only masks
PaintProfile == [paneLimit |-> 2, masks |-> PaintMasks, sizes |-> {<<50, 70>>}]

\* the chart after the constructor, in a run of profile e
InitChart(e) ==
    /\ env = e
    /\ height = 50
    /\ width = 70
    /\ paneWidgets = InitWorld.paneWidgets
    /\ paneSeparators = InitWorld.paneSeparators
    /\ priceAxisWidth = InitWorld.priceAxisWidth
    /\ modelPanes = InitWorld.modelPanes
    /\ timeRange = InitWorld.timeRange
    /\ invalidateMask = InitCtl.mask
    /\ drawPlanned = InitCtl.drawPlanned
    /\ drawRafId = InitCtl.drawRafId
    /\ rafQueue = InitCtl.rafQueue
    /\ destroyed = "no"
    /\ batch = <<FullMask>>
    /\ owed = <<FullMask>>
    /\ lastOp = Op("new", 0, 0, FALSE)
    /\ painted = <<>>

InitWith(e) ==
    /\ InitChart(e)
    /\ paneView = NewPaneView
    /\ axisView = NewAxisView
    /\ canvas = NewCanvas
    /\ wheel = NewWheel

Init == InitWith(HostProfile)

InitPanes == InitWith(PanesProfile)

InitMasks == InitWith(MasksProfile)

InitPaint == InitWith(PaintProfile)

InitLayout == InitWith(LayoutProfile)

Next ==
    \/ \E m \in InputMasks : ModelInvalidate(m)
    \/ ScrollChart
    \/ AddPane
    \/ \E i \in 1 .. 3 : RemovePane(i)
    \/ \E sz \in Sizes, force \in BOOLEAN : Resize(sz[1], sz[2], force)
    \/ \E h \in rafQueue : AnimationFrame(h)
    \/ Destroy

Spec == Init /\ [][Next]_vars

SpecPanes == InitPanes /\ [][Next]_vars

SpecMasks == InitMasks /\ [][Next]_vars

\* the steps of the runs in which the host also calls paint() itself
NextPaint ==
    \/ \E m \in PaintMasks : ModelInvalidate(m)
    \/ ScrollChart
    \/ AddPane
    \/ \E i \in 1 .. 3 : RemovePane(i)
    \/ \E sz \in Sizes, force \in BOOLEAN : Resize(sz[1], sz[2], force)
    \/ \E h \in rafQueue : AnimationFrame(h)
    \/ Destroy
    \/ PaintNoMask

SpecPaint == InitPaint /\ [][NextPaint]_vars

\* the steps of the runs in which the host makes the chart small; the time scale
\* is not scrolled in them
NextLayout ==
    \/ \E m \in InputMasks : ModelInvalidate(m)
    \/ AddPane
    \/ \E i \in 1 .. 3 : RemovePane(i)
    \/ \E sz \in LayoutSizes, force \in BOOLEAN : Resize(sz[1], sz[2], force)
    \/ \E h \in rafQueue : AnimationFrame(h)
    \/ Destroy

SpecLayout == InitLayout /\ [][NextLayout]_vars

(***************************************************************************)
(* The pane view, the price-axis view and drawLine, each on its own.       *)
(***************************************************************************)
NextPaneView ==
    \/ \E kind \in UpdateKinds : PaneViewUpdated(kind)
    \/ PaneViewResolved
    \/ \E e \in SeriesStates : SeriesChanged(e)

SpecPaneView == InitPanes /\ [][NextPaneView]_vars

NextAxisView ==
    \/ AxisViewUpdated
    \/ \E name \in Accessors : AxisViewRead(name)

SpecAxisView == InitPanes /\ [][NextAxisView]_vars

\* a chart as constructed, and one call of drawLine about to be made
InitDrawLine ==
    /\ InitChart(PanesProfile)
    /\ paneView = NewPaneView
    /\ axisView = NewAxisView
    /\ canvas \in LineCalls
    /\ wheel = NewWheel

NextDrawLine == LineDrawn

SpecDrawLine == InitDrawLine /\ [][NextDrawLine]_vars

\* a chart as constructed, and one wheel event about to be delivered
InitWheel ==
    /\ InitChart(PanesProfile)
    /\ paneView = NewPaneView
    /\ axisView = NewAxisView
    /\ canvas = NewCanvas
    /\ wheel \in WheelEvents

NextWheel == Mousewheel

SpecWheel == InitWheel /\ [][NextWheel]_vars

(***************************************************************************)
(* Helpers of the properties.                                              *)
(***************************************************************************)
\* how often x occurs in the sequence s
Count(s, x) == Cardinality({k \in DOMAIN s : s[k] = x})

\* the largest severity among the masks of the sequence b
MaxLevel(b) ==
    CHOOSE l \in {LevelNone, LevelLight, LevelFull} :
        /\ \A k \in DOMAIN b : b[k].level <= l
        /\ \E k \in DOMAIN b : b[k].level = l

\* the largest pane-specific severity the masks of b carry for pane i
MaxPaneLevel(b, i) ==
    CHOOSE l \in {LevelNone, LevelLight, LevelFull} :
        /\ \A k \in DOMAIN b : b[k].panes[i].set => b[k].panes[i].level <= l
        /\ \E k \in DOMAIN b : b[k].panes[i].set /\ b[k].panes[i].level = l

AnyFit(b) == \E k \in DOMAIN b : b[k].fit

AnyPaneSet(b, i) == \E k \in DOMAIN b : b[k].panes[i].set

AnyAutoScale(b, i) == \E k \in DOMAIN b : b[k].panes[i].set /\ b[k].panes[i].autoScale

\* m is the component-wise join of the masks of the non-empty sequence b
IsJoinOf(m, b) ==
    /\ m.level = MaxLevel(b)
    /\ m.fit = AnyFit(b)
    /\ \A i \in PaneIdx :
          /\ m.panes[i].set = AnyPaneSet(b, i)
          /\ m.panes[i].autoScale = AnyAutoScale(b, i)
          /\ AnyPaneSet(b, i) => m.panes[i].level = MaxPaneLevel(b, i)

\* a frame paint is the last thing that happened
FramePainted == painted /= <<>> /\ painted[1].src = "frame"

(***************************************************************************)
(* C1: at most one animation-frame callback is outstanding at any time,    *)
(* and an invalidation that arrives while a paint is scheduled requests no *)
(* frame: it only merges into the pending mask.                            *)
(***************************************************************************)
C1_AtMostOneFrame ==
    /\ [](Cardinality(rafQueue) <= 1)
    /\ [][(Len(batch') = Len(batch) + 1 /\ drawPlanned)
            => /\ rafQueue' = rafQueue
               /\ drawRafId' = drawRafId
               /\ drawPlanned'
               /\ invalidateMask' = MergeOpt(invalidateMask, <<batch'[Len(batch')]>>)]_vars

\* an invalidation arrived while a paint was scheduled with a pending mask
C1_Witness ==
    /\ lastOp.op = "invalidate"
    /\ Len(batch) >= 2
    /\ drawPlanned
    /\ Cardinality(rafQueue) = 1

(***************************************************************************)
(* C2: no invalidation is dropped.  Stated on finite runs: when the        *)
(* controller is not destroyed and no frame callback is outstanding, no    *)
(* paint will run unless something new is raised, so nothing delivered may *)
(* still be owed a paint.                                                  *)
(***************************************************************************)
C2_NoInvalidationDropped ==
    (destroyed = "no" /\ rafQueue = {}) => owed = <<>>

(***************************************************************************)
(* C3: the N >= 1 invalidations raised since the last frame are painted by *)
(* one frame paint, entered with the join of the N masks; a fit-content    *)
(* request among them is applied exactly once and, in a Full paint, every  *)
(* pane an autoscale request names is autoscaled exactly once.             *)
(***************************************************************************)
C3_OnePaintOfMergedMask ==
    /\ batch /= <<>> => (invalidateMask /= <<>> /\ (destroyed = "no" => rafQueue /= {}))
    /\ FramePainted =>
          LET d == painted[1]
          IN  /\ Len(painted) = 1
              /\ d.batch /= <<>>
              /\ IsJoinOf(d.mask, d.batch)
              /\ d.level = MaxLevel(d.batch)
              /\ Count(d.ops, <<"paint", 0>>) = 1
              /\ Count(d.ops, <<"fitContent", 0>>) =
                    (IF AnyFit(d.batch) /\ d.level >= LevelLight THEN 1 ELSE 0)
              /\ \A i \in PaneIdx :
                    Count(d.ops, <<"autoScale", i>>) =
                       (IF /\ AnyAutoScale(d.batch, i)
                           /\ d.level = LevelFull
                           /\ i < Len(modelPanes)
                        THEN 1 ELSE 0)
              /\ d.batch = <<LightAuto1, FullFit>> =>
                    /\ d.level = LevelFull
                    /\ Count(d.ops, <<"updateGui", 0>>) = 1
                    /\ Count(d.ops, <<"fitContent", 0>>) = 1
                    /\ Len(modelPanes) >= 2 => Count(d.ops, <<"autoScale", 1>>) = 1

\* Light with pane-1 autoscale, then Full with fit-content, painted by one frame
C3_Witness ==
    /\ FramePainted
    /\ painted[1].batch = <<LightAuto1, FullFit>>
    /\ Len(modelPanes) = 2
    /\ modelPanes[2].autoScaled
    /\ timeRange = "fit"
    /\ Count(painted[1].ops, <<"autoScale", 1>>) = 1

(***************************************************************************)
(* C4: the controller is a two-state machine: a paint is scheduled exactly *)
(* when the pending mask is non-null, and when the frame callback has run  *)
(* the controller is idle, the mask is cleared, and the callback painted.  *)
(***************************************************************************)
C4_TwoStateMachine ==
    /\ drawPlanned <=> (invalidateMask /= <<>>)
    /\ lastOp.op = "frame" => (~drawPlanned /\ invalidateMask = <<>> /\ painted /= <<>>)

(***************************************************************************)
(* C5: coalescing refines sequential application: the frame paint of the   *)
(* merged mask leaves the widgets and the model as painting each mask of   *)
(* the batch in arrival order does, each at Full when any of them is Full. *)
(***************************************************************************)
\* the mask m as it is painted on its own: at Full when a mask of b is Full
Lifted(m, b) ==
    IF MaxLevel(b) = LevelFull THEN [m EXCEPT !.level = LevelFull] ELSE m

RECURSIVE PaintEach(_, _, _, _, _)
\* the state after one _drawImpl for each of the first k masks of b
PaintEach(w, b, k, hgt, wdt) ==
    IF k = 0 THEN w
    ELSE DrawWorld(PaintEach(w, b, k - 1, hgt, wdt), hgt, wdt,
                   Lifted(b[k], b), Lifted(b[k], b), "none")

C5_CoalescingRefinesSequential ==
    [][(lastOp'.op = "frame" /\ painted' /= <<>> /\ batch /= <<>>)
         => World' = PaintEach(World, batch, Len(batch), height, width)]_vars

\* a Light and a Full mask were coalesced and painted over a changed model
C5_Witness ==
    /\ FramePainted
    /\ Len(painted[1].batch) = 2
    /\ painted[1].batch[1].level = LevelLight
    /\ painted[1].batch[2].level = LevelFull
    /\ Len(paneWidgets) = 2
    /\ \E k \in 1 .. 2 : modelPanes[k].autoScaled

(***************************************************************************)
(* C6: the pending mask is the join of the masks delivered since it was    *)
(* last consumed: maximum severity, per-pane union of the flags, OR of the *)
(* fit-content flags; merge is associative and idempotent.                 *)
(***************************************************************************)
\* masks the algebraic laws are tried on, beside the pending one
MaskSamples ==
    InputMasks \cup {LightMask, FullMask, NewMask(LevelNone),
                     [NewMask(LevelNone) EXCEPT !.panes[0] = PaneEntry(LevelFull, FALSE)]}

C6_PendingIsJoin ==
    invalidateMask /= <<>> =>
        LET p == invalidateMask[1]
        IN  /\ batch /= <<>>
            /\ IsJoinOf(p, batch)
            /\ Merge(p, p) = p
            /\ \A a \in MaskSamples, b \in MaskSamples :
                  /\ Merge(Merge(p, a), b) = Merge(p, Merge(a, b))
                  /\ Merge(Merge(a, p), b) = Merge(a, Merge(p, b))
                  /\ Merge(a, a) = a

\* a Light mask with a pane flag and a Full mask with fit-content are pending together
C6_Witness ==
    /\ invalidateMask /= <<>>
    /\ Len(batch) >= 2
    /\ \E k \in DOMAIN batch : batch[k].level = LevelLight
    /\ invalidateMask[1].level = LevelFull
    /\ invalidateMask[1].fit
    /\ invalidateMask[1].panes[1].autoScale

(***************************************************************************)
(* C7: order independence: delivering the masks of the batch in any other  *)
(* order leaves the same pending mask, hence the same paint decisions.     *)
(***************************************************************************)
NullCtl == [mask |-> <<>>, drawPlanned |-> FALSE, drawRafId |-> 0, rafQueue |-> {}]

RECURSIVE Delivered(_, _)
\* the pending mask after the masks of b were delivered, in order, to an idle controller
Delivered(b, k) ==
    IF k = 0 THEN NullCtl ELSE InvalidateHandler(Delivered(b, k - 1), b[k])

Perms(n) == {f \in [1 .. n -> 1 .. n] : \A i, j \in 1 .. n : f[i] = f[j] => i = j}

C7_OrderIndependent ==
    batch /= <<>> =>
        \A f \in Perms(Len(batch)) :
            LET b == [k \in 1 .. Len(batch) |-> batch[f[k]]]
                m == Delivered(b, Len(b)).mask
            IN  /\ m = invalidateMask
                /\ DrawOps(World, m[1], m[1], "none")
                     = DrawOps(World, invalidateMask[1], invalidateMask[1], "none")
                /\ \A i \in PaneIdx :
                      InvalidateForPane(m[1], i) = InvalidateForPane(invalidateMask[1], i)

\* two different masks are pending, delivered in one of their two orders
C7_Witness ==
    /\ Len(batch) = 2
    /\ batch[1] = FullFit
    /\ batch[2] = LightAuto1
    /\ invalidateMask = <<Merge(LightAuto1, FullFit)>>

(***************************************************************************)
(* C8: destroy() cancels the paint scheduled before it: a frame callback   *)
(* outstanding when destroy() is called never runs afterwards, and after   *)
(* destroy() the controller owns no pane widget and no pane separator.     *)
(***************************************************************************)
C8_DestroyCancels ==
    /\ destroyed /= "no" => (paneWidgets = <<>> /\ paneSeparators = <<>>)
    /\ lastOp.op = "destroy" => rafQueue = {}
    /\ destroyed = "scheduled" => (rafQueue = {} /\ painted = <<>>)

\* destroyed while a paint was scheduled, and an invalidation arrived afterwards
C8_Witness ==
    /\ destroyed = "scheduled"
    /\ lastOp.op = "invalidate"
    /\ invalidateMask /= <<>>
    /\ drawPlanned

(***************************************************************************)
(* C9: resize to other dimensions stores them; forced, a Full paint runs   *)
(* inside the call; not forced, nothing is painted in the call, a Full     *)
(* invalidation is pending with a frame requested, and that frame paints   *)
(* at Full.                                                                *)
(***************************************************************************)
C9_ResizeRepaints ==
    /\ [][(lastOp'.op = "resize" /\ (lastOp'.h /= height \/ lastOp'.w /= width))
            => /\ height' = lastOp'.h
               /\ width' = lastOp'.w
               /\ lastOp'.force =>
                     /\ Len(painted') = 1
                     /\ painted'[1].src = "resize"
                     /\ painted'[1].mask = FullMask
                     /\ painted'[1].level = LevelFull
                     /\ Count(painted'[1].ops, <<"paint", 0>>) = 1
               /\ ~lastOp'.force =>
                     /\ painted' = <<>>
                     /\ World' = World
                     /\ invalidateMask' /= <<>>
                     /\ invalidateMask'[1].level = LevelFull
                     /\ drawPlanned'
                     /\ rafQueue' /= {}]_vars
    /\ [][(lastOp.op = "resize" /\ ~lastOp.force
              /\ batch /= <<>> /\ batch[Len(batch)] = FullMask
              /\ lastOp'.op = "frame")
            => /\ Len(painted') = 1
               /\ painted'[1].src = "frame"
               /\ painted'[1].level = LevelFull]_vars

\* a forced resize to another height painted inside the call
C9_Witness ==
    /\ lastOp = Op("resize", 30, 70, TRUE)
    /\ height = 30
    /\ painted /= <<>>
    /\ painted[1].src = "resize"

(***************************************************************************)
(* C10: resize to the current dimensions changes nothing, forced or not:   *)
(* no dimension, no pending mask, no scheduling state, no widget; it       *)
(* raises no invalidation and paints nothing.                              *)
(***************************************************************************)
C10_ResizeSameIsNoop ==
    [][(lastOp'.op = "resize" /\ lastOp'.h = height /\ lastOp'.w = width)
         => /\ UNCHANGED <<height, width, paneWidgets, paneSeparators, priceAxisWidth,
                           invalidateMask, drawPlanned, drawRafId, rafQueue,
                           modelPanes, timeRange, batch, owed>>
            /\ painted' = <<>>]_vars

\* a forced resize to the current dimensions, while a mask is pending
C10_Witness ==
    /\ lastOp.op = "resize"
    /\ lastOp.force
    /\ lastOp.h = height
    /\ lastOp.w = width
    /\ painted = <<>>
    /\ invalidateMask /= <<>>

(***************************************************************************)
(* C11: after every Full paint, whatever panes the model gained or lost    *)
(* since the paint before, there are as many pane widgets as model panes   *)
(* and pane widget i is bound to model pane i.                             *)
(***************************************************************************)
C11_WidgetsMatchPanes ==
    (painted /= <<>> /\ painted[1].src \in {"frame", "resize"}
                    /\ painted[1].level = LevelFull) =>
        /\ Len(paneWidgets) = Len(modelPanes)
        /\ \A k \in 1 .. Len(paneWidgets) : paneWidgets[k].state = modelPanes[k].id

\* a Full frame paint after the first pane was removed and another added
C11_Witness ==
    /\ FramePainted
    /\ painted[1].level = LevelFull
    /\ Len(paneWidgets) = 2
    /\ paneWidgets[1].state /= 1
    /\ Len(paneSeparators) = 0

(***************************************************************************)
(* C12: a paint at Light severity skips the structural resync: it leaves   *)
(* the pane widgets, the separators, the layout and the autoscale state of *)
(* the panes as they were, whatever flags the mask carries; it applies a   *)
(* fit-content request of the mask, and leaves the visible range of the    *)
(* time scale alone otherwise; it then refreshes the time axis and paints. *)
(***************************************************************************)
\* a _drawImpl run at Light severity is what the step did
LightPaintStep ==
    /\ painted' /= <<>>
    /\ painted'[1].src \in {"frame", "resize"}
    /\ painted'[1].level = LevelLight

C12_LightPaintFitsOnly ==
    [][LightPaintStep =>
          /\ UNCHANGED <<paneWidgets, paneSeparators, priceAxisWidth, modelPanes,
                         height, width>>
          /\ timeRange' = (IF painted'[1].mask.fit THEN "fit" ELSE timeRange)
          /\ painted'[1].ops =
                (IF painted'[1].mask.fit THEN <<<<"fitContent", 0>>>> ELSE <<>>)
                \o <<<<"timeAxisUpdate", 0>>, <<"paint", 0>>>>]_vars

\* C12 as the specification words it: a Light paint changes nothing of the
\* widgets, the layout, the autoscale state and the visible time range
C12_LightPaintChangesNothing ==
    [][LightPaintStep => World' = World]_vars

\* the user scrolled, the model asked for fit-content and pane-1 autoscale at
\* Light, and one Light paint served both
C12_Witness ==
    /\ FramePainted
    /\ painted[1].level = LevelLight
    /\ painted[1].batch = <<LightMask, LightFit>>
    /\ timeRange = "fit"
    /\ Len(modelPanes) = 2
    /\ ~modelPanes[2].autoScaled

(***************************************************************************)
(* C13: in every paint each pane widget is painted at a level that is at   *)
(* least the global severity of the mask, and at exactly that severity     *)
(* when the mask has no entry for the pane; paint() without a mask paints  *)
(* every pane widget and the time axis at Full.                            *)
(***************************************************************************)
C13_NeverUnderInvalidated ==
    painted /= <<>> =>
        LET d == painted[1]
        IN  /\ Len(d.levels.panes) = Len(paneWidgets)
            /\ \A k \in 1 .. Len(d.levels.panes) :
                  /\ d.levels.panes[k] >= FullInvalidation(d.mask)
                  /\ (k - 1 \notin PaneIdx \/ ~d.mask.panes[k - 1].set)
                        => d.levels.panes[k] = FullInvalidation(d.mask)
            /\ d.src = "paint" =>
                  /\ \A k \in 1 .. Len(d.levels.panes) : d.levels.panes[k] = LevelFull
                  /\ d.levels.axis = LevelFull

\* a mask of no global severity with an entry for pane 0 only was painted on two panes
C13_Witness ==
    /\ FramePainted
    /\ painted[1].batch = <<PaneOnly0>>
    /\ painted[1].levels.panes = <<LevelLight, LevelNone>>

(***************************************************************************)
(* C19: a Full paint first runs the structural resync and layout, then     *)
(* applies the fit-content request of the mask (if set) and the autoscale  *)
(* request of every pane the mask flags, once each, and paints only after  *)
(* all of them; a pane the mask does not flag is not autoscaled.           *)
(***************************************************************************)
C19_FullPaintOrder ==
    (painted /= <<>> /\ painted[1].src \in {"frame", "resize"}
                    /\ painted[1].level = LevelFull) =>
        LET d == painted[1]
            n == Len(d.ops)
        IN  /\ d.ops[1] = <<"updateGui", 0>>
            /\ Count(d.ops, <<"updateGui", 0>>) = 1
            /\ d.ops[n] = <<"paint", 0>>
            /\ Count(d.ops, <<"paint", 0>>) = 1
            /\ Count(d.ops, <<"fitContent", 0>>) = (IF GetFitContent(d.mask) THEN 1 ELSE 0)
            /\ \A i \in 0 .. 2 :
                  Count(d.ops, <<"autoScale", i>>) =
                     (IF i < Len(modelPanes) /\ InvalidateForPane(d.mask, i).autoScale
                      THEN 1 ELSE 0)

\* a Full paint with a fit-content request and an autoscale request for pane 1
\* of two: pane 0 is not autoscaled
C19_Witness ==
    /\ FramePainted
    /\ painted[1].ops = <<<<"updateGui", 0>>, <<"fitContent", 0>>, <<"autoScale", 1>>,
                          <<"timeAxisUpdate", 0>>, <<"paint", 0>>>>
    /\ Len(modelPanes) = 2
    /\ modelPanes[2].autoScaled
    /\ ~modelPanes[1].autoScaled

(***************************************************************************)
(* C14: SeriesPaneViewBase.update(kind) always raises the geometry flag    *)
(* (_invalidated); it raises the data flag (_dataInvalidated) when kind is *)
(* 'data' and leaves it as it was for any other kind or none; it clears    *)
(* neither flag and does not touch the items or their visible range.       *)
(***************************************************************************)
C14_UpdateRaisesFlags ==
    [][paneView'.op = "update" =>
          /\ paneView'.invalidated
          /\ paneView'.kind = "data" => paneView'.dataInvalidated
          /\ paneView'.kind /= "data" =>
                paneView'.dataInvalidated = paneView.dataInvalidated
          /\ paneView.dataInvalidated => paneView'.dataInvalidated
          /\ paneView'.items = paneView.items
          /\ paneView'.range = paneView.range
          /\ paneView'.log = <<>>]_vars

\* a resolved view with items was updated for something other than its data
C14_Witness ==
    /\ paneView.op = "update"
    /\ paneView.kind = "options"
    /\ paneView.invalidated
    /\ ~paneView.dataInvalidated
    /\ paneView.items /= <<>>
    /\ paneView.range /= <<>>

(***************************************************************************)
(* C15: a resolve (_makeValid) rebuilds the raw items exactly when         *)
(* update('data') was called since the resolve before (or it is the first  *)
(* resolve), re-projects exactly when any update was called since then (or *)
(* it is the first), and leaves both flags clear; a resolve with no update *)
(* since the last one does no work.                                        *)
(***************************************************************************)
\* the call named c was made during the last operation on the pane view
Called(v, c) == \E k \in DOMAIN v.log : v.log[k] = c

C15_ResolveDoesWhatIsDue ==
    [][paneView'.op = "resolve" =>
          /\ Called(paneView', "fillRawPoints") <=> paneView.sinceData
          /\ Called(paneView', "updatePoints") <=> paneView.sinceAny
          /\ Count(paneView'.log, "fillRawPoints") <= 1
          /\ Count(paneView'.log, "updatePoints") <= 1
          /\ ~paneView'.invalidated
          /\ ~paneView'.dataInvalidated
          /\ ~paneView.sinceAny =>
                /\ paneView'.log = <<>>
                /\ paneView'.items = paneView.items
                /\ paneView'.range = paneView.range]_vars

\* a resolve after an update that was not about the data, over two bars:
\* re-projected, not rebuilt
C15_Witness ==
    /\ paneView.op = "resolve"
    /\ paneView.log = <<"updatePoints", "convertToCoordinates">>
    /\ Len(paneView.items) = 2
    /\ paneView.range /= <<>>

(***************************************************************************)
(* C16: a re-projection (_updatePoints) made while the time scale is       *)
(* empty, or the price scale is empty, or no bar is visible, or the series *)
(* has no bar, sets the visible range of the items to null and converts no *)
(* coordinate: a range computed before does not survive it.                *)
(***************************************************************************)
C16_EmptyIsExplicit ==
    (/\ Called(paneView, "updatePoints")
     /\ \/ paneView.timeEmpty
        \/ paneView.priceEmpty
        \/ paneView.visible = <<>>
        \/ paneView.bars = 0)
       => /\ paneView.range = <<>>
          /\ ~Called(paneView, "convertToCoordinates")

\* items that once had coordinates were re-projected over an empty price scale
C16_Witness ==
    /\ paneView.op = "resolve"
    /\ paneView.log = <<"updatePoints">>
    /\ paneView.priceEmpty
    /\ ~paneView.timeEmpty
    /\ paneView.visible /= <<>>
    /\ paneView.bars > 0
    /\ \E k \in DOMAIN paneView.items : paneView.items[k].x /= 0
    /\ paneView.range = <<>>

(***************************************************************************)
(* C17: a PriceAxisView starts invalidated; update() only raises the flag  *)
(* and recomputes nothing; _updateRendererData runs only from an accessor  *)
(* that finds the flag set, and clears it: between two update() calls it   *)
(* runs at most once, however many accessors are called.                   *)
(***************************************************************************)
C17_LazyRecompute ==
    /\ [](/\ axisView.op = "new" =>
                (axisView.invalidated /\ axisView.stamp = NeverComputed /\ ~axisView.ran)
          /\ axisView.op = "update" => (axisView.invalidated /\ ~axisView.ran)
          /\ axisView.ran =>
                /\ axisView.op \in LazyAccessors
                /\ ~axisView.invalidated
                /\ axisView.stamp = axisView.updates
          /\ axisView.runs <= 1)
    /\ [][/\ axisView'.op = "update" => axisView'.stamp = axisView.stamp
          /\ axisView'.ran => axisView.invalidated
          /\ (axisView'.op \in Accessors /\ ~axisView'.ran) =>
                /\ axisView'.stamp = axisView.stamp
                /\ axisView'.invalidated = axisView.invalidated]_vars

\* the second update() was followed by two lazy accessors: the later one
\* recomputed nothing
C17_Witness ==
    /\ axisView.op = "renderer"
    /\ ~axisView.ran
    /\ axisView.runs = 1
    /\ axisView.updates = 2
    /\ axisView.stamp = 2
    /\ ~axisView.invalidated

(***************************************************************************)
(* C18: drawLine with an end-point coordinate that is NaN or infinite      *)
(* issues nothing on the drawing backend; with four finite coordinates it  *)
(* issues save, setLineDash, beginPath, moveTo, lineTo, stroke, restore in *)
(* that order, so that every save has its restore.                         *)
(***************************************************************************)
\* the names of the operations issued
OpNames(ops) == [k \in DOMAIN ops |-> ops[k].op]

C18_DrawLineSkipsNonFinite ==
    canvas.called =>
        IF \E c \in {canvas.x1, canvas.y1, canvas.x2, canvas.y2} :
               c.k \in {"nan", "+inf", "-inf"}
        THEN canvas.ops = <<>>
        ELSE /\ OpNames(canvas.ops) = <<"save", "setLineDash", "beginPath", "moveTo",
                                        "lineTo", "stroke", "restore">>
             /\ canvas.ops[4].args = <<canvas.x1, canvas.y1>>
             /\ canvas.ops[5].args = <<canvas.x2, canvas.y2>>
             /\ Count(OpNames(canvas.ops), "save") = Count(OpNames(canvas.ops), "restore")

\* drawLine was called with a first point that is finite and a second whose y is NaN
C18_Witness ==
    /\ canvas.called
    /\ canvas.x1 = Num(0)
    /\ canvas.y1 = Num(7)
    /\ canvas.x2 = Num(7)
    /\ canvas.y2 = NaN
    /\ canvas.ops = <<>>

(***************************************************************************)
(* C20: once update() was called on a PriceAxisView, every accessor of its *)
(* derived data (text, background, color, coordinate, floatCoordinate,     *)
(* isVisible, renderer, ...) returns data a recompute made after the       *)
(* latest update() produced.                                               *)
(***************************************************************************)
C20_AccessorsAreFresh ==
    (axisView.op \in Accessors /\ axisView.updates > 0)
        => axisView.ret = axisView.updates

(***************************************************************************)
(* C21: a re-projection never aborts with a failed assertion: whenever     *)
(* _updatePoints ran while both scales are non-empty, bars are visible and *)
(* the series holds a bar, either the series has a first value, or the     *)
(* view ends with the null visible range and no exception.                 *)
(***************************************************************************)
C21_NeverAborts ==
    (/\ paneView.op = "resolve"
     /\ Called(paneView, "updatePoints")
     /\ ~paneView.timeEmpty
     /\ ~paneView.priceEmpty
     /\ paneView.visible /= <<>>
     /\ paneView.bars > 0)
       => /\ ~paneView.threw
          /\ FirstValue(paneView) = <<>> => paneView.range = <<>>

(***************************************************************************)
(* C22: for every wheel event, zoomTime is called exactly when the         *)
(* vertical delta is non-zero and handleScale.mouseWheel is enabled, with  *)
(* an amount of magnitude at most 1 and of the sign opposite to deltaY;    *)
(* scrollChart is called exactly when the horizontal delta is non-zero and *)
(* handleScroll.mouseWheel is enabled; the zoom comes before the scroll;   *)
(* and when neither applies nothing is called, preventDefault included.    *)
(***************************************************************************)
C22_WheelZoomsAndScrolls ==
    wheel.handled =>
        LET names == OpNames(wheel.calls)
            zooms == wheel.deltaY /= 0 /\ wheel.scale
            scrolls == wheel.deltaX /= 0 /\ wheel.scroll
        IN  /\ Count(names, "zoomTime") = (IF zooms THEN 1 ELSE 0)
            /\ Count(names, "scrollChart") = (IF scrolls THEN 1 ELSE 0)
            /\ \A k \in DOMAIN wheel.calls :
                   wheel.calls[k].op = "zoomTime" =>
                       /\ Abs(wheel.calls[k].arg) <= WheelUnit
                       /\ Sign(wheel.calls[k].arg) = -Sign(wheel.deltaY)
            /\ \A j, k \in DOMAIN wheel.calls :
                   (wheel.calls[j].op = "zoomTime"
                        /\ wheel.calls[k].op = "scrollChart") => j < k
            /\ (~zooms /\ ~scrolls) => wheel.calls = <<>>
            /\ (zooms \/ scrolls) => wheel.calls[1].op = "preventDefault"

\* a line-mode event with both deltas set and both options on: the zoom is clamped
\* to 1 and issued before the scroll
C22_Witness ==
    /\ wheel.handled
    /\ wheel.deltaMode = "DOM_DELTA_LINE"
    /\ wheel.deltaY = 30
    /\ wheel.deltaX = -30
    /\ wheel.calls = <<WheelCall("preventDefault", 0), WheelCall("zoomTime", -WheelUnit),
                       WheelCall("scrollChart", 76800)>>

(***************************************************************************)
(* C23: after destroy() no paint executes, whatever invalidation the       *)
(* controller is handed afterwards: neither when destroy() found a paint   *)
(* scheduled nor when it found the controller idle.                        *)
(***************************************************************************)
C23_NoPaintAfterDestroy ==
    destroyed /= "no" => painted = <<>>

(***************************************************************************)
(* C24: a forced resize to other dimensions paints once, inside the call,  *)
(* with a fresh Full mask, and takes nothing from the scheduler: a frame   *)
(* outstanding stays outstanding, _drawPlanned stays set, and a pending    *)
(* mask stays pending with every flag it had.  The scheduler fields are    *)
(* unchanged unless the model raised an invalidation during the paint;     *)
(* then that mask is merged into the pending one and a frame is planned.   *)
(* The frame that follows paints a mask covering what was pending.         *)
(***************************************************************************)
\* the step is a forced resize to other dimensions
ForcedResizeStep ==
    /\ lastOp'.op = "resize"
    /\ lastOp'.force
    /\ (lastOp'.h /= height \/ lastOp'.w /= width)

C24_ForcedResizeKeepsPending ==
    /\ [][ForcedResizeStep =>
             /\ Len(painted') = 1
             /\ painted'[1].src = "resize"
             /\ painted'[1].mask = FullMask
             /\ rafQueue \subseteq rafQueue'
             /\ drawPlanned => drawPlanned'
             /\ invalidateMask /= <<>> =>
                   /\ invalidateMask' /= <<>>
                   /\ Covers(invalidateMask'[1], invalidateMask[1])
             /\ batch' = batch =>
                   UNCHANGED <<invalidateMask, drawPlanned, drawRafId, rafQueue>>
             /\ batch' /= batch =>
                   /\ invalidateMask' = MergeOpt(invalidateMask, <<batch'[Len(batch')]>>)
                   /\ drawPlanned'
                   /\ rafQueue' /= {}]_vars
    /\ [][(lastOp.op = "resize" /\ lastOp.force /\ painted /= <<>>
              /\ invalidateMask /= <<>> /\ lastOp'.op = "frame")
            => /\ Len(painted') = 1
               /\ painted'[1].src = "frame"
               /\ Covers(painted'[1].mask, invalidateMask[1])]_vars

\* the statement as claimed: a forced resize leaves the scheduler fields as they were
C24_ForcedResizeLeavesScheduler ==
    [][ForcedResizeStep =>
          UNCHANGED <<invalidateMask, drawPlanned, drawRafId, rafQueue>>]_vars

\* a forced resize while a Full mask with fit-content was pending, during which
\* the model raised a Light mask: the pending mask kept its flags
C24_Witness ==
    /\ lastOp.op = "resize"
    /\ lastOp.force
    /\ Len(painted) = 1
    /\ painted[1].at = "gui"
    /\ batch = <<FullFit, LightMask>>
    /\ invalidateMask = <<FullFit>>
    /\ drawPlanned
    /\ rafQueue /= {}

(***************************************************************************)
(* C25: in every state of a SeriesPaneViewBase, whatever update and        *)
(* _makeValid calls were made since its construction, _dataInvalidated     *)
(* implies _invalidated; and a resolve that rebuilt the raw items called   *)
(* _updatePoints right after the rebuild, in the same resolve.             *)
(***************************************************************************)
C25_DataDirtyIsGeometryDirty ==
    /\ paneView.dataInvalidated => paneView.invalidated
    /\ (paneView.op = "resolve" /\ Called(paneView, "fillRawPoints")) =>
          /\ Len(paneView.log) >= 2
          /\ paneView.log[1] = "fillRawPoints"
          /\ paneView.log[2] = "updatePoints"

\* a view that was resolved over visible bars was told that its data changed
C25_Witness ==
    /\ paneView.op = "update"
    /\ paneView.kind = "data"
    /\ paneView.dataInvalidated
    /\ paneView.invalidated
    /\ paneView.range /= <<>>
    /\ \E k \in DOMAIN paneView.items : paneView.items[k].x /= 0

(***************************************************************************)
(* C26: after a layout (_adjustSizeImpl, run by every Full paint) every    *)
(* pane is at least 2 pixels high, and the pane heights sum to the larger  *)
(* of the total pane height and the heights of all panes but the last      *)
(* plus 2: exactly the total pane height when at least 2 pixels are left   *)
(* for the last pane, and more than it (the panes overflow the chart)      *)
(* when fewer are left.                                                    *)
(***************************************************************************)
RECURSIVE SumHeights(_, _)
\* the heights of the first k pane widgets, added up
SumHeights(ws, k) == IF k = 0 THEN 0 ELSE SumHeights(ws, k - 1) + ws[k].h

\* the chart height less the separators and the time axis, not below 0
AvailableHeight ==
    Max(height - (SeparatorHeight * Len(paneSeparators) + TimeAxisHeight), 0)

\* the last step ran a Full paint, which laid the pane widgets out
LaidOut ==
    /\ Len(painted) = 1
    /\ painted[1].src \in {"frame", "resize"}
    /\ painted[1].level = LevelFull
    /\ paneWidgets /= <<>>

C26_LayoutHeights ==
    LaidOut =>
        LET n == Len(paneWidgets)
        IN  /\ \A k \in 1 .. n : paneWidgets[k].h >= 2
            /\ SumHeights(paneWidgets, n)
                  = Max(AvailableHeight, SumHeights(paneWidgets, n - 1) + 2)
            /\ AvailableHeight - SumHeights(paneWidgets, n - 1) >= 2
                  => SumHeights(paneWidgets, n) = AvailableHeight
            /\ AvailableHeight - SumHeights(paneWidgets, n - 1) < 2
                  => SumHeights(paneWidgets, n) > AvailableHeight

\* the statement as claimed: at least 2 pixels each and never more than is available
C26_PanesNeverOverflow ==
    LaidOut =>
        /\ \A k \in 1 .. Len(paneWidgets) : paneWidgets[k].h >= 2
        /\ SumHeights(paneWidgets, Len(paneWidgets)) <= AvailableHeight

\* three panes laid out in a chart lower than its time axis: 2 pixels each
C26_Witness ==
    /\ LaidOut
    /\ height = 10
    /\ Len(paneWidgets) = 3
    /\ AvailableHeight = 0
    /\ \A k \in 1 .. 3 : paneWidgets[k].h = 2

====
